---- MODULE Spec2Model ----
(***************************************************************************)
(* Swarm: a mission orchestrator that runs N agents under one cancellable  *)
(* scope, a shared token-bucket rate limiter, a bounded event bus drained  *)
(* by the WebSocket hub and the event logger, and a mission store.         *)
(*                                                                         *)
(* The repository holds two generations of the runtime:                    *)
(*   legacy  : package main  (agent.go, rest_api, rate_limiter, hub)       *)
(*   runtime : internal/...  (RuntimeAgent, api.RESTAPI, EventLogger,      *)
(*             SupabaseStore)                                              *)
(* Both are modelled; cfg.impl says which one a behaviour runs.            *)
(***************************************************************************)
EXTENDS Integers, Sequences, FiniteSets, TLC

(* ------------------------------ bounds --------------------------------- *)
\* tokens are counted in 1/Scale of a token, time in 1/TicksPerSec of a second
Scale == 2
TicksPerSec == 2
MaxTime == 4
MaxRate == 2
MaxCap == 2
NumCallers == 2
\* the mission side
MaxAgents == 2      \* agents of the mission (NumAgents)
MaxSteps == 4       \* stands for agent.go's maxSteps (30): the loop bound, scaled down
BusCap == 1         \* stands for the event bus buffer (1000)
MaxErrors == 12     \* errors the target/policy may inject into one RuntimeAgent
MaxSuccess == 2     \* successful actions the target may grant one RuntimeAgent
NumURLs == 2        \* distinct URLs the target serves
MaxMetric == 1      \* the logger's and the row's totals stop counting here
MaxHist == 3        \* URL changes a RuntimeAgent's target makes before it stays put
NumMissions == 2    \* mission ids the registry is asked about
MaxMade == 2        \* limiters the registry creates before Get stops being called
NumConns == 2       \* WebSocket connections that register with the hub
MaxEvents == 3      \* events whose delivery is followed
NumNodes == 3       \* element nodes of a DOM tree

\* program constants
maxConsecutiveErrors == 3
runtimeErrorThreshold == 10
maxRetries == 3

VARIABLES
  now,        \* time.Now(), in ticks since the limiter was created
  rl,         \* the RateLimiter: [rate, capacity, tokens, lastRefill]
  wctx,       \* the context handed to Wait is cancelled
  wpc,        \* per caller: where it is inside Wait
  wakeAt,     \* per caller: when its time.After(waitTime) fires
  tries,      \* per caller: tryAcquire attempts of the current/last call
  slept,      \* per caller: the current/last call went through the select
  acquired,   \* number of Wait calls that have returned nil
  took,       \* per caller: tokens (in 1/Scale) the current/last call deducted
  late,       \* per caller: the context was already cancelled when Wait was called
  reg,        \* the RateLimiterRegistry: its map, its mutex, the calls in progress
  regLog,     \* per mission id: what Get has returned since the last Remove
  ws,         \* the WebSocketHub's connections, and who received which event
  dec,        \* the DecideNextAction call in progress, or the last one
  api,        \* the create-mission request the REST API handled last
  sel,        \* the element whose selector was generated and resolved
  cfg,        \* the run's configuration: implementation, NumAgents, environment
  mission,    \* the in-memory Mission the orchestrator owns
  ctxDone,    \* the mission's context is cancelled (deadline or deferred cancel)
  opc,        \* startMission: where the orchestrator goroutine is
  spawned,    \* startMission: loop index i
  wg,         \* sync.WaitGroup counter (legacy startMission)
  ag,         \* per agent: its goroutine's position and its fields
  bus,        \* the event bus: a buffered channel of Event
  emitted,    \* per agent: the ActionLogs a legacy Agent has sent, by result
  store,      \* the persisted mission row (SupabaseStore)
  lg          \* the EventLogger: its accumulator and where its flush is

limVars == <<now, rl, wctx, wpc, wakeAt, tries, slept, acquired, took, late>>

misVars == <<reg, regLog, ws, dec, api, sel, cfg, mission, ctxDone, opc, spawned, wg, ag, bus, emitted,
            store, lg>>

orchVars == <<reg, regLog, ws, dec, api, sel, cfg, mission, ctxDone, opc, spawned, wg, store, lg>>

vars == <<now, rl, wctx, wpc, wakeAt, tries, slept, acquired, took, late, reg, regLog, ws, dec,
          api, sel, cfg, mission, ctxDone, opc, spawned, wg, ag, bus, emitted, store, lg>>

Callers == 1..NumCallers

(* ---------------------------- RateLimiter ------------------------------ *)

\* NewRateLimiter: the bucket starts full
NewRateLimiterEmpty(rate, capacity, t) ==
  [rate |-> rate, capacity |-> capacity, tokens |-> 0, lastRefill |-> t]

NewRateLimiter(rate, capacity, t) ==
  [rate |-> rate, capacity |-> capacity, tokens |-> capacity * Scale,
   lastRefill |-> t]

\* refill: tokens += elapsed*rate, capped at capacity; lastRefill = now
refillNoCap(l, t) ==
  IF t - l.lastRefill > 0
    THEN [l EXCEPT !.tokens = l.tokens + (t - l.lastRefill) * l.rate,
                   !.lastRefill = t]
    ELSE l

refillKeepStamp(l, t) ==
  IF t - l.lastRefill > 0
    THEN LET added == l.tokens + (t - l.lastRefill) * l.rate
         IN [l EXCEPT !.tokens = IF added > l.capacity * Scale
                                   THEN l.capacity * Scale ELSE added]
    ELSE l

refill(l, t) ==
  IF t - l.lastRefill > 0
    THEN LET added == l.tokens + (t - l.lastRefill) * l.rate
         IN [l EXCEPT !.tokens = IF added > l.capacity * Scale
                                   THEN l.capacity * Scale ELSE added,
                      !.lastRefill = t]
    ELSE l

\* tryAcquire that deducts whatever is in the bucket when it fails
tryAcquireLeaky(l, t) ==
  LET r == refill(l, t)
  IN IF r.tokens >= Scale
       THEN [ok |-> TRUE, l |-> [r EXCEPT !.tokens = r.tokens - Scale]]
       ELSE [ok |-> FALSE, l |-> [r EXCEPT !.tokens = 0]]

\* tryAcquire, under the mutex: refill, then take one token if there is one
tryAcquire(l, t) ==
  LET r == refill(l, t)
  IN IF r.tokens >= Scale
       THEN [ok |-> TRUE, l |-> [r EXCEPT !.tokens = r.tokens - Scale]]
       ELSE [ok |-> FALSE, l |-> r]

\* calculateWaitTime, under the mutex: time.Duration(waitSeconds*1.1) is a
\* whole number of seconds (the float is truncated before * time.Second)
calculateWaitTime(l, t) ==
  LET r == refill(l, t)
      secs == ((Scale - r.tokens) * 11) \div (r.rate * TicksPerSec * 10)
  IN [wait |-> IF r.tokens >= Scale THEN 0 ELSE secs * TicksPerSec, l |-> r]

(* ------------------------- RateLimiter.Wait ---------------------------- *)

CallWait(c) ==
  /\ wpc[c] \in {"idle", "nil", "err"}
  /\ wpc' = [wpc EXCEPT ![c] = "try"]
  /\ tries' = [tries EXCEPT ![c] = 0]
  /\ slept' = [slept EXCEPT ![c] = FALSE]
  /\ UNCHANGED misVars
  /\ took' = [took EXCEPT ![c] = 0]
  /\ late' = [late EXCEPT ![c] = wctx]
  /\ UNCHANGED <<now, rl, wctx, wakeAt, acquired>>

WaitTry(c) ==
  /\ wpc[c] = "try"
  /\ LET res == tryAcquire(rl, now)
     IN /\ rl' = res.l
        /\ wpc' = [wpc EXCEPT ![c] = IF res.ok THEN "nil" ELSE "ctx"]
        /\ acquired' = IF res.ok THEN acquired + 1 ELSE acquired
        /\ took' = [took EXCEPT ![c] = @ + (refill(rl, now).tokens - res.l.tokens)]
  /\ tries' = [tries EXCEPT ![c] = IF @ < 2 THEN @ + 1 ELSE @]
  /\ UNCHANGED misVars
  /\ UNCHANGED <<now, wctx, wakeAt, slept, late>>

WaitCheckCtx(c) ==
  /\ wpc[c] = "ctx"
  /\ wpc' = [wpc EXCEPT ![c] = IF wctx THEN "err" ELSE "calc"]
  /\ UNCHANGED misVars
  /\ UNCHANGED <<now, rl, wctx, wakeAt, tries, slept, acquired, took, late>>

WaitCalc(c) ==
  /\ wpc[c] = "calc"
  /\ LET res == calculateWaitTime(rl, now)
     IN /\ rl' = res.l
        /\ wpc' = [wpc EXCEPT ![c] = IF res.wait > 0 THEN "sleep" ELSE "try"]
        /\ wakeAt' = [wakeAt EXCEPT ![c] = IF res.wait > 0 THEN now + res.wait ELSE @]
        /\ slept' = [slept EXCEPT ![c] = IF res.wait > 0 THEN TRUE ELSE @]
  /\ UNCHANGED misVars
  /\ UNCHANGED <<now, wctx, tries, acquired, took, late>>

WaitTimerFires(c) ==
  /\ wpc[c] = "sleep"
  /\ now >= wakeAt[c]
  /\ wpc' = [wpc EXCEPT ![c] = "try"]
  /\ UNCHANGED misVars
  /\ UNCHANGED <<now, rl, wctx, wakeAt, tries, slept, acquired, took, late>>

WaitCtxDone(c) ==
  /\ wpc[c] = "sleep"
  /\ wctx
  /\ wpc' = [wpc EXCEPT ![c] = "err"]
  /\ UNCHANGED misVars
  /\ UNCHANGED <<now, rl, wctx, wakeAt, tries, slept, acquired, took, late>>

CancelWait ==
  /\ ~wctx
  /\ wctx' = TRUE
  /\ UNCHANGED misVars
  /\ UNCHANGED <<now, rl, wpc, wakeAt, tries, slept, acquired, took, late>>

Tick ==
  /\ now < MaxTime
  /\ now' = now + 1
  /\ UNCHANGED misVars
  /\ UNCHANGED <<rl, wctx, wpc, wakeAt, tries, slept, acquired, took, late>>

InitLimiter ==
  /\ now = 0
  /\ \E r \in 1..MaxRate, c \in 1..MaxCap : rl = NewRateLimiter(r, c, 0)
  /\ wctx = FALSE
  /\ wpc = [c \in Callers |-> "idle"]
  /\ wakeAt = [c \in Callers |-> 0]
  /\ tries = [c \in Callers |-> 0]
  /\ slept = [c \in Callers |-> FALSE]
  /\ acquired = 0
  /\ took = [c \in Callers |-> 0]
  /\ late = [c \in Callers |-> FALSE]

IdleLimiter ==
  /\ now = 0
  /\ rl = NewRateLimiter(1, 1, 0)
  /\ wctx = FALSE
  /\ wpc = [c \in Callers |-> "idle"]
  /\ wakeAt = [c \in Callers |-> 0]
  /\ tries = [c \in Callers |-> 0]
  /\ slept = [c \in Callers |-> FALSE]
  /\ acquired = 0
  /\ took = [c \in Callers |-> 0]
  /\ late = [c \in Callers |-> FALSE]

NextLimiter ==
  \/ \E c \in Callers : CallWait(c)
  \/ \E c \in Callers : WaitTry(c)
  \/ \E c \in Callers : WaitCheckCtx(c)
  \/ \E c \in Callers : WaitCalc(c)
  \/ \E c \in Callers : WaitTimerFires(c)
  \/ \E c \in Callers : WaitCtxDone(c)
  \/ CancelWait
  \/ Tick

(* ------------------------ RateLimiterRegistry -------------------------- *)

MissionIDs == 1..NumMissions

\* the mission the orchestrator runs
MissionID == NumMissions

\* the rate a mission asks for, in 1/Scale tokens per second
MissionRate == Scale

\* rates handed to Get, in 1/Scale tokens per second: negative, zero,
\* fractional and whole
RegRates == (0 - Scale - 1)..(Scale + 1)

\* Go's int(rate): the float64 is truncated toward zero
intOf(rate) ==
  IF rate >= 0 THEN rate \div Scale ELSE 0 - ((0 - rate) \div Scale)

\* `capacity := int(rate) + 1; if capacity < 1 { capacity = 1 }`
capacityFor(rate) ==
  LET capacity == intOf(rate) + 1
  IN IF capacity < 1 THEN 1 ELSE capacity

NoCall == [pc |-> "idle", op |-> "", id |-> 0, rate |-> 0, ret |-> 0]

\* NewRateLimiterRegistry: an empty map, an unlocked mutex; `made` numbers
\* the limiters NewRateLimiter has allocated (a pointer's identity)
NewRateLimiterRegistry ==
  [limiters |-> <<>>, made |-> 0, mu |-> 0, call |-> [c \in Callers |-> NoCall]]

NoRegLog ==
  [id \in MissionIDs |-> [insts |-> {}, first |-> <<>>, old |-> {}]]

\* `limiter, exists := r.limiters[missionID]`
RegistryExists(r, id) == id \in DOMAIN r.limiters

\* `limiter := NewRateLimiter(rate, capacity); r.limiters[missionID] = limiter`
RegistryCreate(r, id, rate, t) ==
  LET limiter == [inst |-> r.made + 1,
                  l |-> NewRateLimiter(rate, capacityFor(rate), t)]
  IN [r EXCEPT !.made = r.made + 1,
               !.limiters = [i \in DOMAIN r.limiters \cup {id} |->
                               IF i = id THEN limiter ELSE r.limiters[i]]]

\* the body of Get: the registry after it; Get returns limiters[id] of it
RegistryGet(r, id, rate, t) ==
  IF RegistryExists(r, id) THEN r ELSE RegistryCreate(r, id, rate, t)

\* the body of Remove: `delete(r.limiters, missionID)`
RegistryRemove(r, id) ==
  [r EXCEPT !.limiters = [i \in DOMAIN r.limiters \ {id} |-> r.limiters[i]]]

\* Get(id, rate) returned the limiter `lim`
LogGet(g, id, rate, lim) ==
  [g EXCEPT ![id].insts = @ \cup {[inst |-> lim.inst, rate |-> lim.l.rate,
                                   capacity |-> lim.l.capacity]},
            ![id].first = IF @ = <<>> THEN <<rate>> ELSE @]

\* Remove(id) deleted the entry
LogRemove(g, id) ==
  [g EXCEPT ![id] = [insts |-> {}, first |-> <<>>,
                     old |-> g[id].old \cup {x.inst : x \in g[id].insts}]]

\* r.mu.Lock() can be taken when nobody holds the mutex
muFreeAlways(r) == TRUE

muFree(r) == r.mu = 0

\* a goroutine calls Get(id, rate)
RegCallGet(c, id, rate) ==
  /\ reg.call[c].pc = "idle"
  /\ reg.made < MaxMade
  /\ reg' = [reg EXCEPT !.call[c] =
               [pc |-> "lock", op |-> "get", id |-> id, rate |-> rate, ret |-> 0]]
  /\ UNCHANGED <<limVars, regLog, ws, dec, api, sel, cfg, mission, ctxDone, opc, spawned, wg, ag, bus,
                 emitted, store, lg>>

\* a goroutine calls Remove(id)
RegCallRemove(c, id) ==
  /\ reg.call[c].pc = "idle"
  /\ reg' = [reg EXCEPT !.call[c] =
               [pc |-> "lock", op |-> "remove", id |-> id, rate |-> 0, ret |-> 0]]
  /\ UNCHANGED <<limVars, regLog, ws, dec, api, sel, cfg, mission, ctxDone, opc, spawned, wg, ag, bus,
                 emitted, store, lg>>

\* r.mu.Lock()
RegLock(c) ==
  /\ reg.call[c].pc = "lock"
  /\ muFree(reg)
  /\ reg' = [reg EXCEPT !.mu = c, !.call[c].pc = "body"]
  /\ UNCHANGED <<limVars, regLog, ws, dec, api, sel, cfg, mission, ctxDone, opc, spawned, wg, ag, bus,
                 emitted, store, lg>>

\* Get: the map lookup, and the return of the limiter found
RegGetLookup(c) ==
  /\ reg.call[c].pc = "body"
  /\ reg.call[c].op = "get"
  /\ LET id == reg.call[c].id
     IN IF RegistryExists(reg, id)
          THEN /\ reg' = [reg EXCEPT !.call[c].pc = "unlock",
                                     !.call[c].ret = reg.limiters[id].inst]
               /\ regLog' = LogGet(regLog, id, reg.call[c].rate, reg.limiters[id])
          ELSE /\ reg' = [reg EXCEPT !.call[c].pc = "create"]
               /\ UNCHANGED regLog
  /\ UNCHANGED <<limVars, ws, dec, api, sel, cfg, mission, ctxDone, opc, spawned, wg, ag, bus,
                 emitted, store, lg>>

\* Get: the capacity, NewRateLimiter, the store into the map, the return
RegGetCreate(c) ==
  /\ reg.call[c].pc = "create"
  /\ LET id == reg.call[c].id
         r == RegistryCreate(reg, id, reg.call[c].rate, now)
     IN /\ reg' = [r EXCEPT !.call[c].pc = "unlock",
                            !.call[c].ret = r.limiters[id].inst]
        /\ regLog' = LogGet(regLog, id, reg.call[c].rate, r.limiters[id])
  /\ UNCHANGED <<limVars, ws, dec, api, sel, cfg, mission, ctxDone, opc, spawned, wg, ag, bus,
                 emitted, store, lg>>

\* Remove: the delete
RegRemoveDelete(c) ==
  /\ reg.call[c].pc = "body"
  /\ reg.call[c].op = "remove"
  /\ reg' = [RegistryRemove(reg, reg.call[c].id) EXCEPT !.call[c].pc = "unlock"]
  /\ regLog' = LogRemove(regLog, reg.call[c].id)
  /\ UNCHANGED <<limVars, ws, dec, api, sel, cfg, mission, ctxDone, opc, spawned, wg, ag, bus,
                 emitted, store, lg>>

\* the deferred r.mu.Unlock(), and the return
RegUnlock(c) ==
  /\ reg.call[c].pc = "unlock"
  /\ reg' = [reg EXCEPT !.mu = 0, !.call[c].pc = "idle"]
  /\ UNCHANGED <<limVars, regLog, ws, dec, api, sel, cfg, mission, ctxDone, opc, spawned, wg, ag, bus,
                 emitted, store, lg>>

NextRegistry ==
  \/ \E c \in Callers, id \in MissionIDs, rate \in RegRates : RegCallGet(c, id, rate)
  \/ \E c \in Callers, id \in MissionIDs : RegCallRemove(c, id)
  \/ \E c \in Callers : RegLock(c)
  \/ \E c \in Callers : RegGetLookup(c)
  \/ \E c \in Callers : RegGetCreate(c)
  \/ \E c \in Callers : RegRemoveDelete(c)
  \/ \E c \in Callers : RegUnlock(c)

(* --------------------------- DecideNextAction -------------------------- *)

\* the actions a policy can name: the seven of the prompt and an unknown one
PolicyActions ==
  {"click", "type", "wait", "go_back", "visit", "completed", "failed", "dance"}

\* what one GenerateContent call yields: a transport error, a response with
\* no candidates, text that json.Unmarshal rejects, or JSON with these fields
Responses ==
  [kind : {"transport_error", "empty", "unparseable"}, action : {""},
   selector : {""}, text_input : {""}]
  \cup
  [kind : {"json"}, action : PolicyActions, selector : {"", "#sel"},
   text_input : {"", "txt"}]

\* json.Unmarshal into GeminiDecisionResponse succeeded
Parses(resp) == resp.kind = "json"

\* validateResponse of the legacy GeminiService
validateResponse(resp) ==
  /\ resp.action \in {"click", "type", "wait", "go_back"}
  /\ resp.action \in {"click", "type"} => resp.selector # ""
  /\ resp.action = "type" => resp.text_input # ""

NoResponse == [kind |-> "", action |-> "", selector |-> "", text_input |-> ""]

\* no DecideNextAction call yet: `log` holds the responses of the call's
\* attempts, `err` and `decision` what the call returned
NoDecide ==
  [impl |-> "", pc |-> "idle", attempt |-> 0, log |-> <<>>, err |-> FALSE,
   decision |-> NoResponse]

\* an agent calls GeminiService.DecideNextAction of either program
DecideCall(impl) ==
  /\ dec.pc \in {"idle", "ret"}
  /\ dec' = [NoDecide EXCEPT !.impl = impl, !.pc = "attempt"]
  /\ UNCHANGED <<limVars, reg, regLog, ws, api, sel, cfg, mission, ctxDone, opc, spawned, wg,
                 store, lg, ag, bus, emitted>>

\* legacy DecideNextAction, one turn of `for attempt := 0; attempt < maxRetries`
\* and, after the last turn, the "failed after 3 attempts" return
DecideAttemptLegacy(resp) ==
  /\ dec.impl = "legacy"
  /\ dec.pc = "attempt"
  /\ dec.attempt < maxRetries
  /\ dec' = IF Parses(resp) /\ validateResponse(resp)
              THEN [dec EXCEPT !.log = Append(@, resp), !.pc = "ret",
                               !.err = FALSE, !.decision = resp]
            ELSE IF dec.attempt + 1 < maxRetries
              THEN [dec EXCEPT !.log = Append(@, resp), !.attempt = @ + 1]
            ELSE [dec EXCEPT !.log = Append(@, resp), !.attempt = @ + 1,
                             !.pc = "ret", !.err = TRUE]
  /\ UNCHANGED <<limVars, reg, regLog, ws, api, sel, cfg, mission, ctxDone, opc, spawned, wg,
                 store, lg, ag, bus, emitted>>

\* runtime DecideNextAction: one GenerateContent call, the parse, the return
DecideAttemptRuntime(resp) ==
  /\ dec.impl = "runtime"
  /\ dec.pc = "attempt"
  /\ dec' = IF Parses(resp)
              THEN [dec EXCEPT !.log = Append(@, resp), !.pc = "ret",
                               !.err = FALSE, !.decision = resp]
              ELSE [dec EXCEPT !.log = Append(@, resp), !.pc = "ret",
                               !.err = TRUE]
  /\ UNCHANGED <<limVars, reg, regLog, ws, api, sel, cfg, mission, ctxDone, opc, spawned, wg,
                 store, lg, ag, bus, emitted>>

NextDecide ==
  \/ \E impl \in {"legacy", "runtime"} : DecideCall(impl)
  \/ \E resp \in Responses : DecideAttemptLegacy(resp)
  \/ \E resp \in Responses : DecideAttemptRuntime(resp)

(* ---------------------------- CreateMission ---------------------------- *)

\* bodies of POST /api/missions: one that does not decode, and decoded
\* requests with each field inside, on and outside its documented range
\* (rate_limit_per_second in 1/Scale)
CreateRequests ==
  [decodes : BOOLEAN, name : {"", "m"}, target_url : {"", "http://t"},
   goal : {"", "g"}, num_agents : {0, 1, 1000, 1001},
   max_duration_seconds : {9, 10, 3600, 3601},
   rate_limit_per_second : {0 - 1, 0, 1, 1000 * Scale, 1000 * Scale + 1}]

\* validateCreateMissionRequest returns nil
validateCreateMissionRequest(req) ==
  /\ req.name # ""
  /\ req.target_url # ""
  /\ ~(req.num_agents < 1 \/ req.num_agents > 1000)
  /\ req.goal # ""
  /\ ~(req.max_duration_seconds < 10 \/ req.max_duration_seconds > 3600)
  /\ ~(req.rate_limit_per_second <= 0 \/ req.rate_limit_per_second > 1000 * Scale)

\* no request handled yet (one request is followed)
NoCreate ==
  [impl |-> "", req |-> [decodes |-> FALSE], response |-> "", stored |-> FALSE,
   started |-> FALSE]

\* legacy RESTAPI.CreateMission: decode, validate, store.Put, go startMission
CreateMissionLegacy(req) ==
  /\ api = NoCreate
  /\ api' = IF ~req.decodes \/ ~validateCreateMissionRequest(req)
              THEN [impl |-> "legacy", req |-> req, response |-> "400",
                    stored |-> FALSE, started |-> FALSE]
              ELSE [impl |-> "legacy", req |-> req, response |-> "201",
                    stored |-> TRUE, started |-> TRUE]
  /\ UNCHANGED <<limVars, reg, regLog, ws, dec, sel, cfg, mission, ctxDone, opc, spawned,
                 wg, store, lg, ag, bus, emitted>>

\* runtime RESTAPI.createMission: decode, store.Put, go startMission
CreateMissionRuntime(req) ==
  /\ api = NoCreate
  /\ api' = IF ~req.decodes
              THEN [impl |-> "runtime", req |-> req, response |-> "400",
                    stored |-> FALSE, started |-> FALSE]
              ELSE [impl |-> "runtime", req |-> req, response |-> "200",
                    stored |-> TRUE, started |-> TRUE]
  /\ UNCHANGED <<limVars, reg, regLog, ws, dec, sel, cfg, mission, ctxDone, opc, spawned,
                 wg, store, lg, ag, bus, emitted>>

NextCreate ==
  \/ \E req \in CreateRequests : CreateMissionLegacy(req)
  \/ \E req \in CreateRequests : CreateMissionRuntime(req)

(* --------------------------- generateSelector -------------------------- *)

Nodes == 1..NumNodes

\* DOM trees of element nodes numbered in document order: parent 0 is the
\* document, and a node's parent is the node before it or one of that node's
\* ancestors; every element has a tag, maybe an id, maybe a class
RECURSIVE Ancestors(_, _)
Ancestors(dom, n) ==
  IF dom[n].parent = 0 THEN {}
  ELSE {dom[n].parent} \cup Ancestors(dom, dom[n].parent)

Doms ==
  {dom \in [Nodes -> [parent : 0..(NumNodes - 1), tag : {"div", "a"},
                      id : {"", "x"}, class : {"", "c"}]] :
     /\ dom[1].parent = 0
     /\ \A n \in Nodes \ {1} :
          /\ dom[n].parent \in 1..(n - 1)
          /\ dom[n].parent = n - 1 \/ dom[n].parent \in Ancestors(dom, n - 1)}

\* the idx of the nth-child loop: element siblings before n, plus one
nthChild(dom, n) ==
  1 + Cardinality({c \in Nodes : c < n /\ dom[c].parent = dom[n].parent})

\* one part of the selector: tag#id, else tag.class, else tag:nth-child(idx)
selectorPart(dom, n) ==
  IF dom[n].id # ""
    THEN [tag |-> dom[n].tag, id |-> dom[n].id, class |-> "", nth |-> 0]
  ELSE IF dom[n].class # ""
    THEN [tag |-> dom[n].tag, id |-> "", class |-> dom[n].class, nth |-> 0]
  ELSE [tag |-> dom[n].tag, id |-> "", class |-> "", nth |-> nthChild(dom, n)]

\* the walk up the tree: the part is prepended, an id ends the walk
RECURSIVE walkUp(_, _, _)
walkUp(dom, n, parts) ==
  IF n = 0 THEN parts
  ELSE IF dom[n].id # "" THEN <<selectorPart(dom, n)>> \o parts
  ELSE walkUp(dom, dom[n].parent, <<selectorPart(dom, n)>> \o parts)

\* generateSelector: the walk, then the last three parts, joined by spaces
generateSelector(dom, n) ==
  LET parts == walkUp(dom, n, <<>>)
  IN IF Len(parts) > 3 THEN SubSeq(parts, Len(parts) - 2, Len(parts)) ELSE parts

\* an element matches one compound selector
matchesPart(dom, e, part) ==
  /\ dom[e].tag = part.tag
  /\ part.id # "" => dom[e].id = part.id
  /\ part.class # "" => dom[e].class = part.class
  /\ part.nth # 0 => nthChild(dom, e) = part.nth

\* an element matches a descendant-combinator selector
RECURSIVE matchesSelector(_, _, _)
matchesSelector(dom, e, parts) ==
  /\ matchesPart(dom, e, parts[Len(parts)])
  /\ \/ Len(parts) = 1
     \/ \E a \in Ancestors(dom, e) :
          matchesSelector(dom, a, SubSeq(parts, 1, Len(parts) - 1))

\* doc.Find(selector), first element of the selection (0: none)
Find(dom, parts) ==
  LET found == {e \in Nodes : matchesSelector(dom, e, parts)}
  IN IF found = {} THEN 0 ELSE CHOOSE e \in found : \A f \in found : e <= f

NoSel == [node |-> 0]

\* a page is parsed: the selector of element n is generated, twice, and later
\* resolved against the same document
ParseAndFind(dom, n) ==
  /\ sel = NoSel
  /\ sel' = [node |-> n, dom |-> dom, selector |-> generateSelector(dom, n),
             again |-> generateSelector(dom, n),
             found |-> Find(dom, generateSelector(dom, n))]
  /\ UNCHANGED <<limVars, reg, regLog, ws, dec, api, cfg, mission, ctxDone, opc,
                 spawned, wg, store, lg, ag, bus, emitted>>

\* generateSelectorForNode (the executor's own): tag:nth-child(idx), whatever
\* the node's id, class or ancestors
generateSelectorForNode(dom, n) ==
  <<[tag |-> dom[n].tag, id |-> "", class |-> "", nth |-> nthChild(dom, n)]>>

\* submitForm's loop over the form's named fields: the decision's text for a
\* field whose generateSelectorForNode equals the decision's selector, the
\* field's value attribute for the others
formData(dom, fields, selector) ==
  [f \in fields |-> IF selector # <<>> /\ generateSelectorForNode(dom, f) = selector
                      THEN "text_input" ELSE "default"]

\* executeType on a page whose root element is a form and whose other
\* elements are its named fields: the selector is the one the parser exposed
\* for field n; doc.Find, Closest("form"), submitForm
ExecuteType(dom, n) ==
  /\ sel = NoSel
  /\ n # 1
  /\ LET selector == generateSelector(dom, n)
         input == Find(dom, selector)
     IN sel' = [node |-> n, dom |-> dom, selector |-> selector,
                again |-> selector, found |-> input,
                submitted |-> input # 0,
                form |-> formData(dom, Nodes \ {1}, selector)]
  /\ UNCHANGED <<limVars, reg, regLog, ws, dec, api, cfg, mission, ctxDone, opc,
                 spawned, wg, store, lg, ag, bus, emitted>>

NextSelector ==
  \/ \E dom \in Doms, n \in Nodes : ParseAndFind(dom, n)
  \/ \E dom \in Doms, n \in Nodes : ExecuteType(dom, n)

(* ------------------------------ events --------------------------------- *)

Agents == 1..MaxAgents
Terminal == {"completed", "failed", "stopped", "cancelled", "rate_limited"}

NoEv == [type |-> "none", agent |-> 0, status |-> "", result |-> "", payload |-> ""]

\* Agent.emitAgentEvent: type agent_status, an AgentEvent carrying the status
StatusEv(a, st) ==
  [type |-> "agent_status", agent |-> a, status |-> st, result |-> "",
   payload |-> "AgentEvent"]

\* Agent.emitActionLog: type action, an AgentEvent carrying the ActionLog
ActionEv(a, res) ==
  [type |-> "action", agent |-> a, status |-> "", result |-> res,
   payload |-> "AgentEvent"]

\* RuntimeAgent.emitEvent: type agent_action, the bare ActionLog
RuntimeEv(a, res) ==
  [type |-> "agent_action", agent |-> a, status |-> "", result |-> res,
   payload |-> "ActionLog"]

\* a counter of the model that stops counting at cap
Bump(x, cap) == IF x < cap THEN x + 1 ELSE x

NoCount == [success |-> 0, failed |-> 0, error |-> 0]

Count(e, a, key) == [e EXCEPT ![a][key] = @ + 1]

(* ------------------------------ agents --------------------------------- *)

NoAgent ==
  [pc |-> "none", status |-> "", step |-> 0, consecutiveErrors |-> 0,
   errorCount |-> 0, successCount |-> 0, currentURL |-> 1, urlHistory |-> <<>>,
   pending |-> NoEv, fetched |-> FALSE, ret |-> "", answer |-> "",
   actionHistory |-> 0, executed |-> FALSE]

\* NewAgent (agent.go): status "starting", urlHistory = [TargetURL]
NewLegacyAgent ==
  [NoAgent EXCEPT !.pc = "spawned", !.status = "starting", !.urlHistory = <<1>>]

\* NewAgent (internal/agent): status "initialized", urlHistory empty
NewRuntimeAgent ==
  [NoAgent EXCEPT !.pc = "spawned", !.status = "initialized"]

\* the two decisions that end an agent's run
TerminalActions == {"completed", "failed"}

Legacy == cfg.impl = "legacy"
Runtime == cfg.impl = "runtime"
Live == 1..cfg.n

\* Agent.handleError: both counters, then a blocking emit of an ActionLog
LegacyErrorResult == "error"

LegacyHandleError(r, a) ==
  [r EXCEPT !.errorCount = @ + 1, !.consecutiveErrors = @ + 1,
            !.pending = ActionEv(a, LegacyErrorResult)]

\* a recordAction that leaves consecutiveErrors as it is
LegacyRecordActionKeep(r, a) ==
  [r EXCEPT !.successCount = @ + 1, !.actionHistory = @ + 1,
            !.pending = ActionEv(a, "success")]

\* Agent.recordAction; actionHistory is kept as the number of its entries
LegacyRecordAction(r, a) ==
  [r EXCEPT !.successCount = @ + 1, !.consecutiveErrors = 0,
            !.actionHistory = @ + 1, !.pending = ActionEv(a, "success")]

\* a terminal status of Agent.Run: set, emitted (blocking), then return
LegacyExit(r, a, st) ==
  [r EXCEPT !.status = st, !.pending = StatusEv(a, st), !.pc = "returned"]

\* `a.eventBus <- Event{...}`: a channel send, which needs room in the buffer
LegacySendReady(b) == Len(b) < BusCap

\* Run, before the loop: status running, emitAgentEvent
LegacyRunStart(a) ==
  /\ Legacy
  /\ ag[a].pc = "spawned"
  /\ ag' = [ag EXCEPT ![a] = [@ EXCEPT !.status = "running",
                                       !.pending = StatusEv(a, "running"),
                                       !.pc = "top"]]
  /\ UNCHANGED <<limVars, orchVars, bus, emitted>>

\* the pending send of emitAgentEvent / emitActionLog completes
LegacySend(a) ==
  /\ Legacy
  /\ ag[a].pending # NoEv
  /\ LegacySendReady(bus)
  /\ bus' = Append(bus, ag[a].pending)
  /\ emitted' = IF ag[a].pending.type = "action"
                  THEN Count(emitted, a, ag[a].pending.result)
                  ELSE emitted
  /\ ag' = [ag EXCEPT ![a].pending = NoEv]
  /\ UNCHANGED <<limVars, orchVars>>

\* the loop condition of Run: `step < maxSteps`
stepsLeftOneMore(step) == step <= MaxSteps

stepsLeft(step) == step < MaxSteps

\* the head of one loop iteration: step < maxSteps, ctx.Err(), error threshold
LegacyTop(a) ==
  /\ Legacy
  /\ ag[a].pc = "top"
  /\ ag[a].pending = NoEv
  /\ ag' = [ag EXCEPT ![a] =
       LET r == [@ EXCEPT !.answer = "", !.executed = FALSE]
       IN IF ~stepsLeft(r.step) THEN LegacyExit(r, a, "completed")
          ELSE IF ctxDone THEN LegacyExit(r, a, "cancelled")
          ELSE IF r.consecutiveErrors >= maxConsecutiveErrors
            THEN LegacyExit(r, a, "failed")
          ELSE [r EXCEPT !.pc = "wait"]]
  /\ UNCHANGED <<limVars, orchVars, bus, emitted>>

\* a.limiter.Wait(ctx): nil once a token is there, ctx.Err() once cancelled
LegacyWait(a) ==
  /\ Legacy
  /\ ag[a].pc = "wait"
  /\ \/ ag' = [ag EXCEPT ![a].pc = "fetch"]
     \/ /\ ctxDone
        /\ ag' = [ag EXCEPT ![a] = LegacyExit(@, a, "rate_limited")]
  /\ UNCHANGED <<limVars, orchVars, bus, emitted>>

\* fetchPage: a page, or handleError and continue
LegacyFetch(a) ==
  /\ Legacy
  /\ ag[a].pc = "fetch"
  /\ \/ ag' = [ag EXCEPT ![a] = [@ EXCEPT !.pc = "decide", !.fetched = TRUE]]
     \/ /\ ag[a].errorCount < cfg.errCap
        /\ ag' = [ag EXCEPT ![a] = [LegacyHandleError(@, a) EXCEPT
                                      !.step = @ + 1, !.pc = "top"]]
  /\ UNCHANGED <<limVars, orchVars, bus, emitted>>

\* ActionExecutor.executeWait: always an error, whose text starts with "wait:"
executeWait == [error |-> TRUE, prefix |-> "wait:"]

\* a check that takes no error for the wait marker
IsWaitErrorNever(res) == FALSE

\* Agent.Run on result.Error: strings.HasPrefix(result.Error.Error(), "wait:")
IsWaitError(res) == res.error /\ res.prefix = "wait:"

\* DecideNextAction, then go_back or NewActionExecutor + ExecuteAction
LegacyDecide(a) ==
  /\ Legacy
  /\ ag[a].pc = "decide"
  /\ \/ \* the decision fails, the executor cannot be built, or the action fails
        /\ ag[a].errorCount < cfg.errCap
        /\ ag' = [ag EXCEPT ![a] = [LegacyHandleError(@, a) EXCEPT
                                      !.step = @ + 1, !.pc = "top"]]
     \/ \* the model answers "completed" or "failed": validateResponse rejects
        \* every attempt and DecideNextAction returns an error
        \E st \in TerminalActions :
          /\ ag[a].errorCount < cfg.errCap
          /\ ag' = [ag EXCEPT ![a] = [LegacyHandleError(@, a) EXCEPT
                                        !.answer = st, !.step = @ + 1,
                                        !.pc = "top"]]
     \/ \* go_back
        ag' = [ag EXCEPT ![a] =
          IF Len(@.urlHistory) > 1
            THEN LET h == SubSeq(@.urlHistory, 1, Len(@.urlHistory) - 1)
                 IN [LegacyRecordAction([@ EXCEPT !.urlHistory = h,
                                                  !.currentURL = h[Len(h)]], a)
                       EXCEPT !.answer = "go_back", !.step = @ + 1, !.pc = "top"]
            ELSE [@ EXCEPT !.answer = "go_back", !.step = @ + 1, !.pc = "top"]]
     \/ \* wait: the executor answers "wait: ...", recorded as an action
        /\ ag[a].successCount < cfg.succCap
        /\ ag' = [ag EXCEPT ![a] =
             [(IF IsWaitError(executeWait) THEN LegacyRecordAction(@, a)
                                           ELSE LegacyHandleError(@, a))
                EXCEPT !.answer = "wait", !.step = @ + 1, !.pc = "top"]]
     \/ \* click or type succeeds: the URL moves, then the human-like delay
        \E u \in 1..cfg.urls :
          /\ ag[a].successCount < cfg.succCap
          /\ ag' = [ag EXCEPT ![a] =
            [LegacyRecordAction([@ EXCEPT !.currentURL = u,
                                          !.urlHistory = Append(@, u)], a)
               EXCEPT !.pc = "delay"]]
  /\ UNCHANGED <<limVars, orchVars, bus, emitted>>

\* select { time.After(delay) | ctx.Done() }
LegacyDelay(a) ==
  /\ Legacy
  /\ ag[a].pc = "delay"
  /\ ag[a].pending = NoEv
  /\ \/ ag' = [ag EXCEPT ![a] = [@ EXCEPT !.step = @ + 1, !.pc = "top"]]
     \/ /\ ctxDone
        /\ ag' = [ag EXCEPT ![a] = LegacyExit(@, a, "cancelled")]
  /\ UNCHANGED <<limVars, orchVars, bus, emitted>>

LegacyAgentStep(a) ==
  \/ LegacyRunStart(a)
  \/ LegacySend(a)
  \/ LegacyTop(a)
  \/ LegacyWait(a)
  \/ LegacyFetch(a)
  \/ LegacyDecide(a)
  \/ LegacyDelay(a)

(* --------------------------- RuntimeAgent ------------------------------ *)

\* RuntimeAgent.emitEvent: select { case bus <- ev: | default: drop }
emitEvent(b, ev) == IF Len(b) < BusCap THEN Append(b, ev) ELSE b

\* the backoff of RuntimeAgent.handleError, in seconds:
\* time.Sleep(time.Duration(a.consecutiveErrors) * time.Second)
backoffSleep(r) == r.consecutiveErrors

\* RuntimeAgent.handleError without its emit: counters, backoff sleep, threshold
RuntimeHandleError(r) ==
  LET r1 == [r EXCEPT !.errorCount = Bump(@, cfg.errCap),
                      !.consecutiveErrors = Bump(@, cfg.errCap)]
  IN [r1 EXCEPT !.status = IF r1.consecutiveErrors > runtimeErrorThreshold
                             THEN "failed" ELSE @]

\* RuntimeAgent.recordAction without its emit
RuntimeRecordAction(r) ==
  [r EXCEPT !.successCount = Bump(@, cfg.succCap), !.consecutiveErrors = 0,
            !.actionHistory = Bump(@, cfg.succCap)]

\* an update that moves currentURL and leaves the history alone
RuntimeMoveToNoAppend(r, u) ==
  IF u # r.currentURL THEN [r EXCEPT !.currentURL = u] ELSE r

\* "Update URL if changed": NewURL != "" && NewURL != currentURL
RuntimeMoveTo(r, u) ==
  IF u # r.currentURL
    THEN [r EXCEPT !.currentURL = u, !.urlHistory = Append(@, u)]
    ELSE r

\* the URLs the target may answer with: it stays put once MaxHist moves are made
RuntimeTargets(r) ==
  IF Len(r.urlHistory) <= MaxHist THEN 1..cfg.urls ELSE {r.currentURL}

\* Run, before the loop: status running, executor set-up, initial visit
RuntimeRunStart(a) ==
  /\ Runtime
  /\ ag[a].pc = "spawned"
  /\ LET r0 == [ag[a] EXCEPT !.status = "running",
                             !.urlHistory = Append(@, ag[a].currentURL)]
     IN \/ /\ ag' = [ag EXCEPT ![a] = [r0 EXCEPT !.pc = "top"]]
           /\ UNCHANGED bus
        \/ \* NewActionExecutor fails, or the browser executor is nil
           /\ ag' = [ag EXCEPT ![a] = [RuntimeHandleError(r0) EXCEPT
                                         !.status = "failed", !.pc = "returned"]]
           /\ bus' = emitEvent(bus, RuntimeEv(a, "failed"))
        \/ \* browser mode: the initial visit fails and the loop is entered anyway
           /\ cfg.mode = "browser"
           /\ ag' = [ag EXCEPT ![a] = [RuntimeHandleError(r0) EXCEPT !.pc = "top"]]
           /\ bus' = emitEvent(bus, RuntimeEv(a, "failed"))
  /\ UNCHANGED <<limVars, orchVars, emitted>>

\* for { select { case <-ctx.Done(): stopped, return; default: ... } }
RuntimeTop(a) ==
  /\ Runtime
  /\ ag[a].pc = "top"
  /\ ag' = [ag EXCEPT ![a] =
       LET r == [@ EXCEPT !.answer = "", !.executed = FALSE]
       IN IF ctxDone THEN [r EXCEPT !.status = "stopped", !.pc = "returned"]
                     ELSE [r EXCEPT !.pc = "wait"]]
  /\ UNCHANGED <<limVars, orchVars, bus, emitted>>

\* a.limiter.Wait(ctx): nil, or the context's error once it is cancelled
RuntimeWait(a) ==
  /\ Runtime
  /\ ag[a].pc = "wait"
  /\ \/ ag' = [ag EXCEPT ![a].pc = "fetch"]
     \/ /\ ctxDone
        /\ ag' = [ag EXCEPT ![a] = [@ EXCEPT !.status = "stopped", !.pc = "returned"]]
  /\ UNCHANGED <<limVars, orchVars, bus, emitted>>

\* the page: CaptureDOM + ParseHTMLString (browser) or client.Do + ParseHTML
RuntimeFetch(a) ==
  /\ Runtime
  /\ ag[a].pc = "fetch"
  /\ \/ /\ ag' = [ag EXCEPT ![a] = [RuntimeHandleError(@) EXCEPT !.pc = "top"]]
        /\ bus' = emitEvent(bus, RuntimeEv(a, "failed"))
     \/ /\ \E u \in IF cfg.mode = "browser" THEN RuntimeTargets(ag[a])
                                            ELSE {ag[a].currentURL} :
             ag' = [ag EXCEPT ![a] = [RuntimeMoveTo(@, u) EXCEPT
                                        !.pc = "decide", !.fetched = TRUE]]
        /\ UNCHANGED bus
  /\ UNCHANGED <<limVars, orchVars, emitted>>

\* DecideNextAction, the terminal decisions, ExecuteAction
RuntimeDecide(a) ==
  /\ Runtime
  /\ ag[a].pc = "decide"
  /\ \/ \* the decision call or the action fails
        /\ ag' = [ag EXCEPT ![a] = [RuntimeHandleError(@) EXCEPT !.pc = "top"]]
        /\ bus' = emitEvent(bus, RuntimeEv(a, "failed"))
     \/ \* decision "completed" or "failed"
        /\ \E st \in TerminalActions :
             ag' = [ag EXCEPT ![a] = [RuntimeRecordAction(@) EXCEPT
                                        !.answer = st, !.status = st,
                                        !.pc = "returned"]]
        /\ bus' = emitEvent(bus, RuntimeEv(a, "success"))
     \/ \* decision "go_back": handed to ExecuteAction like any other action;
        \* the HTTP executor answers it with an error
        /\ cfg.mode = "http"
        /\ ag' = [ag EXCEPT ![a] = [RuntimeHandleError(@) EXCEPT
                                      !.answer = "go_back", !.executed = TRUE,
                                      !.pc = "top"]]
        /\ bus' = emitEvent(bus, RuntimeEv(a, "failed"))
     \/ \* decision "go_back" in browser mode: the executor's default case
        \* reads the page the browser is on, which is recorded as a success
        /\ cfg.mode = "browser"
        /\ \E u \in RuntimeTargets(ag[a]) :
             ag' = [ag EXCEPT ![a] = [RuntimeMoveTo(RuntimeRecordAction(@), u)
                                        EXCEPT !.answer = "go_back",
                                               !.executed = TRUE, !.pc = "top"]]
        /\ bus' = emitEvent(bus, RuntimeEv(a, "success"))
     \/ \* the action succeeds
        /\ \E u \in RuntimeTargets(ag[a]) :
             ag' = [ag EXCEPT ![a] = [RuntimeMoveTo(RuntimeRecordAction(@), u)
                                        EXCEPT !.pc = "top"]]
        /\ bus' = emitEvent(bus, RuntimeEv(a, "success"))
  /\ UNCHANGED <<limVars, orchVars, emitted>>

RuntimeAgentStep(a) ==
  \/ RuntimeRunStart(a)
  \/ RuntimeTop(a)
  \/ RuntimeWait(a)
  \/ RuntimeFetch(a)
  \/ RuntimeDecide(a)

(* ---------------------- orchestrator: startMission --------------------- *)

NoStore == [present |-> FALSE, status |-> "", totalActions |-> 0, totalErrors |-> 0]

\* the row SupabaseStore.Put upserts for a mission
Row(m) ==
  [present |-> TRUE, status |-> m.status, totalActions |-> m.totalActions,
   totalErrors |-> m.totalErrors]

\* SupabaseStore.Put: the upsert, or a logged database error that stores nothing
Put(s, m) == {Row(m), s}

NoLogger == [has |-> FALSE, totalActions |-> 0, totalErrors |-> 0,
             pc |-> "idle", held |-> NoStore, final |-> FALSE]

NoMetrics == [status |-> "", successCount |-> 0, errorCount |-> 0]

\* Agent.GetMetrics: the snapshot of the agent's status and counters
GetMetrics(r) ==
  [status |-> r.status, successCount |-> r.successCount,
   errorCount |-> r.errorCount]

NewMission(st) ==
  [status |-> st, completedAgents |-> 0, failedAgents |-> 0,
   totalActions |-> 0, totalErrors |-> 0,
   agentMetrics |-> [a \in Agents |-> NoMetrics]]

\* wg.Done()
wgDoneMissing(w) == w

wgDone(w) == w - 1

\* legacy startMission up to the agent loop: WithTimeout, status running,
\* rateLimitRegistry.Get
StartMissionLegacy ==
  /\ Legacy
  /\ opc = "created"
  /\ mission' = [mission EXCEPT !.status = "running"]
  /\ reg' = RegistryGet(reg, MissionID, MissionRate, now)
  /\ regLog' = LogGet(regLog, MissionID, MissionRate, reg'.limiters[MissionID])
  /\ opc' = "spawning"
  /\ UNCHANGED <<limVars, ws, dec, api, sel, cfg, ctxDone, spawned, wg, store, lg, ag, bus, emitted>>

\* one turn of the agent loop: wg.Add(1), agentFactory, AgentMetrics, go Run
SpawnLegacy ==
  /\ Legacy
  /\ opc = "spawning"
  /\ spawned < cfg.n
  /\ spawned' = spawned + 1
  /\ wg' = wg + 1
  /\ ag' = [ag EXCEPT ![spawned + 1] = NewLegacyAgent]
  /\ mission' = [mission EXCEPT !.agentMetrics[spawned + 1] = GetMetrics(NewLegacyAgent)]
  /\ UNCHANGED <<limVars, reg, regLog, ws, dec, api, sel, cfg, ctxDone, opc, store, lg, bus, emitted>>

\* the merge's test of the agent's final status: `metrics.Status == "completed"`,
\* `else if metrics.Status == "failed"`
CountedAsAny(st, k) == TRUE

CountedAs(st, k) == st = k

\* the agent goroutine after Run returns: the merge under agentMutex, wg.Done
MergeLegacy(a) ==
  /\ Legacy
  /\ ag[a].pc = "returned"
  /\ ag[a].pending = NoEv
  /\ mission' = [mission EXCEPT
       !.agentMetrics[a] = GetMetrics(ag[a]),
       !.totalActions = @ + ag[a].successCount,
       !.totalErrors = @ + ag[a].errorCount,
       !.completedAgents = IF CountedAs(ag[a].status, "completed") THEN @ + 1 ELSE @,
       !.failedAgents = IF CountedAs(ag[a].status, "failed") THEN @ + 1 ELSE @]
  /\ wg' = wgDone(wg)
  /\ ag' = [ag EXCEPT ![a].pc = "done"]
  /\ UNCHANGED <<limVars, reg, regLog, ws, dec, api, sel, cfg, ctxDone, opc, spawned, store, lg, bus, emitted>>

\* wg.Wait() returns, status completed, the deferred cancel runs
FinishLegacy ==
  /\ Legacy
  /\ opc = "spawning"
  /\ spawned = cfg.n
  /\ wg = 0
  /\ mission' = [mission EXCEPT !.status = "completed"]
  /\ ctxDone' = TRUE
  /\ opc' = "done"
  /\ UNCHANGED <<limVars, reg, regLog, ws, dec, api, sel, cfg, spawned, wg, store, lg, ag, bus, emitted>>

\* api.startMission up to the agent loop: status running, Put, rateLimits.Get,
\* WithTimeout
StartMissionRuntime ==
  /\ Runtime
  /\ opc = "created"
  /\ mission' = [mission EXCEPT !.status = "running"]
  /\ store' \in Put(store, mission')
  /\ reg' = RegistryGet(reg, MissionID, MissionRate, now)
  /\ regLog' = LogGet(regLog, MissionID, MissionRate, reg'.limiters[MissionID])
  /\ opc' = "spawning"
  /\ UNCHANGED <<limVars, ws, dec, api, sel, cfg, ctxDone, spawned, wg, lg, ag, bus, emitted>>

\* one turn of the agent loop: NewAgent, AgentMetrics "initialized", go Run
SpawnRuntime ==
  /\ Runtime
  /\ opc = "spawning"
  /\ spawned < cfg.n
  /\ spawned' = spawned + 1
  /\ ag' = [ag EXCEPT ![spawned + 1] = NewRuntimeAgent]
  /\ mission' = [mission EXCEPT !.agentMetrics[spawned + 1] =
                  [NoMetrics EXCEPT !.status = "initialized"]]
  /\ UNCHANGED <<limVars, reg, regLog, ws, dec, api, sel, cfg, ctxDone, opc, wg, store, lg, bus, emitted>>

\* <-ctx.Done() returns: status completed, the final Put, rateLimits.Remove
FinishRuntime ==
  /\ Runtime
  /\ opc = "spawning"
  /\ spawned = cfg.n
  /\ ctxDone
  /\ mission' = [mission EXCEPT !.status = "completed"]
  /\ store' \in Put(store, mission')
  /\ reg' = RegistryRemove(reg, MissionID)
  /\ regLog' = LogRemove(regLog, MissionID)
  /\ opc' = "done"
  /\ UNCHANGED <<limVars, ws, dec, api, sel, cfg, ctxDone, spawned, wg, lg, ag, bus, emitted>>

\* the deadline of context.WithTimeout passes
DeadlineFires ==
  /\ opc = "spawning"
  /\ ~ctxDone
  /\ ctxDone' = TRUE
  /\ UNCHANGED <<limVars, reg, regLog, ws, dec, api, sel, cfg, mission, opc, spawned, wg, store, lg, ag, bus, emitted>>

(* -------------------------------- hub ---------------------------------- *)

\* WebSocketHub.Run: `case event := <-h.eventBus` is ready when the bus holds one
HubNeverReady(b) == FALSE

HubReady(b) == Len(b) > 0

Conns == 1..NumConns

\* a connection: `unreg` counts the goroutines blocked on `h.unregister <- conn`,
\* `closed` the calls of conn.Close(), `pump` says its read pump still reads
NoConn ==
  [registered |-> FALSE, broken |-> FALSE, out |-> <<>>, unreg |-> 0,
   closed |-> 0, pump |-> FALSE]

\* NewWebSocketHub: no connections; `got` records which receiver of the bus
\* channel took which stamped event, `stamped` how many were sent
NewWebSocketHub ==
  [conn |-> [k \in Conns |-> NoConn], hubGot |-> {}, logGot |-> {}, stamped |-> 0]

\* an event with its Timestamp kept, for the events whose delivery is followed
Stamped(ev, n) ==
  [type |-> ev.type, agent |-> ev.agent, status |-> ev.status,
   result |-> ev.result, payload |-> ev.payload, stamp |-> n]

StampOf(ev) == IF "stamp" \in DOMAIN ev THEN {ev.stamp} ELSE {}

\* conn.WriteMessage(websocket.TextMessage, data): the message follows the
\* ones written before it on this connection
WriteMessageFirst(out, data) == <<data>> \o out

WriteMessage(out, data) == Append(out, data)

\* broadcast: every registered connection is written to; the writes in F fail
\* (and a connection that failed once keeps failing); a failed write starts a
\* goroutine that sends the connection to h.unregister
broadcast(w, ev, F) ==
  [w EXCEPT !.conn = [k \in Conns |->
     IF ~w.conn[k].registered THEN w.conn[k]
     ELSE IF k \in F \/ w.conn[k].broken
       THEN [w.conn[k] EXCEPT !.broken = TRUE, !.unreg = @ + 1]
     ELSE [w.conn[k] EXCEPT !.out = WriteMessage(@, ev)]]]

\* WebSocketHub.Run takes the head of the bus and broadcasts it
HubRun ==
  /\ HubReady(bus)
  /\ bus' = Tail(bus)
  /\ \E F \in SUBSET {k \in Conns : ws.conn[k].registered /\ ~ws.conn[k].broken} :
       ws' = [broadcast(ws, Head(bus), F) EXCEPT !.hubGot = @ \cup StampOf(Head(bus))]
  /\ UNCHANGED <<limVars, reg, regLog, dec, api, sel, cfg, mission, ctxDone, opc, spawned, wg, store,
                 lg, ag, emitted>>

\* Run, `case conn := <-h.register`: ServeWebSocket upgraded a new connection
HubRegister(k) ==
  /\ ws.conn[k] = NoConn
  /\ ws' = [ws EXCEPT !.conn[k].registered = TRUE, !.conn[k].pump = TRUE]
  /\ UNCHANGED <<limVars, reg, regLog, dec, api, sel, cfg, mission, ctxDone, opc, spawned, wg, store,
                 lg, ag, bus, emitted>>

\* an unregister case that closes without looking the connection up
unregisterUnchecked(c) ==
  [c EXCEPT !.registered = FALSE, !.broken = TRUE, !.closed = @ + 1]

\* `if _, ok := h.connections[conn]; ok { delete(...); conn.Close() }`
unregister(c) ==
  IF c.registered
    THEN [c EXCEPT !.registered = FALSE, !.broken = TRUE, !.closed = @ + 1]
    ELSE c

\* Run, `case conn := <-h.unregister`: one of the blocked senders gets through
HubUnregister(k) ==
  /\ ws.conn[k].unreg > 0
  /\ ws' = [ws EXCEPT !.conn[k] = [unregister(@) EXCEPT !.unreg = @ - 1]]
  /\ UNCHANGED <<limVars, reg, regLog, dec, api, sel, cfg, mission, ctxDone, opc, spawned, wg, store,
                 lg, ag, bus, emitted>>

\* ServeWebSocket's read pump: ReadMessage fails, the deferred function sends
\* the connection to h.unregister
ReadPumpEnds(k) ==
  /\ ws.conn[k].pump
  /\ ws' = [ws EXCEPT !.conn[k].pump = FALSE, !.conn[k].unreg = @ + 1]
  /\ UNCHANGED <<limVars, reg, regLog, dec, api, sel, cfg, mission, ctxDone, opc, spawned, wg, store,
                 lg, ag, bus, emitted>>

(* ----------------------------- the mission ----------------------------- *)

Configs(ns, errs, succs, urls) ==
  [impl : {"legacy"}, n : ns, errCap : errs, succCap : succs, urls : urls,
   mode : {"http"}]
  \cup
  [impl : {"runtime"}, n : ns, errCap : errs, succCap : succs, urls : urls,
   mode : {"http", "browser"}]

\* the state after createMission: the mission is stored, startMission not yet run
InitMission(cs) ==
  /\ cfg \in cs
  /\ mission = NewMission(IF cfg.impl = "legacy" THEN "pending" ELSE "created")
  /\ ctxDone = FALSE
  /\ opc = "created"
  /\ spawned = 0
  /\ wg = 0
  /\ reg = NewRateLimiterRegistry
  /\ ws = NewWebSocketHub
  /\ dec = NoDecide
  /\ sel = NoSel
  /\ api = NoCreate
  /\ regLog = NoRegLog
  /\ ag = [a \in Agents |-> NoAgent]
  /\ bus = <<>>
  /\ emitted = [a \in Agents |-> NoCount]
  /\ store \in IF cfg.impl = "legacy" THEN {NoStore} ELSE Put(NoStore, mission)
  /\ lg = NoLogger

IdleMission ==
  /\ cfg = [impl |-> "legacy", n |-> 1, errCap |-> 0, succCap |-> 0, urls |-> 1,
            mode |-> "http"]
  /\ mission = NewMission("pending")
  /\ ctxDone = FALSE
  /\ opc = "created"
  /\ spawned = 0
  /\ wg = 0
  /\ reg = NewRateLimiterRegistry
  /\ ws = NewWebSocketHub
  /\ dec = NoDecide
  /\ sel = NoSel
  /\ api = NoCreate
  /\ regLog = NoRegLog
  /\ ag = [a \in Agents |-> NoAgent]
  /\ bus = <<>>
  /\ emitted = [a \in Agents |-> NoCount]
  /\ store = NoStore
  /\ lg = NoLogger

\* several agents against a target that only fails: often enough to fail a
\* legacy Agent, once for a RuntimeAgent
CrowdConfigs ==
  {c \in Configs(2..MaxAgents, {1, maxConsecutiveErrors}, {0}, {1}) :
     c.errCap = IF c.impl = "legacy" THEN maxConsecutiveErrors ELSE 1}

\* one agent against a target that fails as often as it likes, one agent
\* against a target that moves between URLs, and a crowd
MissionConfigs ==
  Configs({1}, {MaxErrors}, {MaxSuccess}, {1})
  \cup Configs({1}, {1}, {MaxSuccess}, {NumURLs})
  \cup CrowdConfigs

Init == IdleLimiter /\ InitMission(MissionConfigs)

Next ==
  \/ \E a \in Agents : LegacyAgentStep(a)
  \/ \E a \in Agents : RuntimeAgentStep(a)
  \/ \E a \in Agents : MergeLegacy(a)
  \/ StartMissionLegacy
  \/ SpawnLegacy
  \/ FinishLegacy
  \/ StartMissionRuntime
  \/ SpawnRuntime
  \/ FinishRuntime
  \/ DeadlineFires
  \/ HubRun

Spec == Init /\ [][Next]_vars

\* a limiter of any rate and capacity, used by the callers alone
InitWait == InitLimiter /\ IdleMission

SpecLimiter == InitWait /\ [][NextLimiter]_vars

\* an empty registry, called by goroutines of any mission
InitRegistry == IdleLimiter /\ IdleMission

SpecRegistry == InitRegistry /\ [][NextRegistry]_vars

\* one agent that fails and succeeds, and a crowd
FairConfigs ==
  Configs({1}, {maxConsecutiveErrors}, {1}, {1})
  \cup {c \in Configs(2..MaxAgents, {1}, {0}, {1}) : c.mode = "http"}

InitFair == IdleLimiter /\ InitMission(FairConfigs)

\* every goroutine that can run does run: the agents, the post-Run merge, the
\* orchestrator, the hub's loop; and the deadline timer fires
Fairness ==
  /\ \A a \in Agents : WF_vars(LegacyAgentStep(a))
  /\ \A a \in Agents : WF_vars(RuntimeAgentStep(a))
  /\ \A a \in Agents : WF_vars(MergeLegacy(a))
  /\ WF_vars(StartMissionLegacy \/ SpawnLegacy \/ FinishLegacy)
  /\ WF_vars(StartMissionRuntime \/ SpawnRuntime \/ FinishRuntime)
  /\ WF_vars(DeadlineFires)
  /\ WF_vars(HubRun)

FairSpec == InitFair /\ [][Next]_vars /\ Fairness

(* ---------------------------- EventLogger ----------------------------- *)

\* an event of a kind EventLogger.handleEvent acts on, as a holder of the bus
\* channel builds it: "action" with an AgentEvent, or a mission lifecycle event
LoggerEvents ==
  {[type |-> "action", agent |-> 1, status |-> "", result |-> res,
    payload |-> "AgentEvent"] : res \in {"success", "failed"}}
  \cup
  {[type |-> t, agent |-> 0, status |-> "", result |-> "", payload |-> "map"] :
     t \in {"mission_started", "mission_completed"}}

\* a producer other than a RuntimeAgent sends on the bus
Publish(ev) ==
  /\ Runtime
  /\ Len(bus) < BusCap
  /\ bus' = Append(bus, ev)
  /\ UNCHANGED <<limVars, orchVars, ag, emitted>>

Plus(x, y) == IF x + y < MaxMetric THEN x + y ELSE MaxMetric

\* updateMetrics: the accumulator is created on demand; success counts as an
\* action, anything else as an error
updateMetrics(l, res) ==
  [l EXCEPT !.has = TRUE,
            !.totalActions = IF res = "success" THEN Plus(@, 1) ELSE @,
            !.totalErrors = IF res = "success" THEN @ ELSE Plus(@, 1)]

\* flushMissionMetrics up to store.Get: no accumulator or no row ends the
\* flush; after mission_completed the accumulator is then deleted as it is
flushBegin(l, final) ==
  IF l.has /\ store.present
    THEN [l EXCEPT !.pc = "flush", !.held = store, !.final = final]
    ELSE IF final
      THEN [l EXCEPT !.has = FALSE, !.totalActions = 0, !.totalErrors = 0]
      ELSE l

\* updateMission: the accumulated totals are added to the mission just read
updateMission(m, l) ==
  [m EXCEPT !.totalActions = Plus(@, l.totalActions),
            !.totalErrors = Plus(@, l.totalErrors)]

\* Run, `case event := <-e.eventBus`: handleEvent
LoggerRecv ==
  /\ Runtime
  /\ lg.pc = "idle"
  /\ Len(bus) > 0
  /\ bus' = Tail(bus)
  /\ LET ev == Head(bus)
     IN lg' = IF ev.type = "action" /\ ev.payload = "AgentEvent"
                THEN updateMetrics(lg, ev.result)
              ELSE IF ev.type = "mission_started" /\ ev.payload = "map"
                THEN [lg EXCEPT !.has = TRUE, !.totalActions = 0, !.totalErrors = 0]
              ELSE IF ev.type = "mission_completed" /\ ev.payload = "map"
                THEN flushBegin(lg, TRUE)
              ELSE lg
  /\ ws' = [ws EXCEPT !.logGot = @ \cup StampOf(Head(bus))]
  /\ UNCHANGED <<limVars, reg, regLog, dec, api, sel, cfg, mission, ctxDone, opc, spawned, wg, store, ag, emitted>>

\* Run, `case <-ticker.C`: flushAllMetrics reaches the mission's store.Get
LoggerTick ==
  /\ Runtime
  /\ lg.pc = "idle"
  /\ lg.has
  /\ store.present
  /\ lg' = flushBegin(lg, FALSE)
  /\ UNCHANGED <<limVars, reg, regLog, ws, dec, api, sel, cfg, mission, ctxDone, opc, spawned, wg, store, ag, bus, emitted>>

\* flushMissionMetrics from updateMission on: Put of the mission that was read,
\* resetMetrics, and after mission_completed the accumulator is deleted
LoggerPut ==
  /\ Runtime
  /\ lg.pc = "flush"
  /\ store' \in Put(store, updateMission(lg.held, lg))
  /\ lg' = [lg EXCEPT !.pc = "idle", !.held = NoStore, !.final = FALSE,
                      !.has = IF lg.final THEN FALSE ELSE @,
                      !.totalActions = 0, !.totalErrors = 0]
  /\ UNCHANGED <<limVars, reg, regLog, ws, dec, api, sel, cfg, mission, ctxDone, opc, spawned, wg, ag, bus, emitted>>

\* the runtime with its logger: one agent, a target that fails or succeeds once
LoggerConfigs ==
  {c \in Configs({1}, {1}, {1}, {1}) : c.impl = "runtime" /\ c.mode = "http"}

InitLogger == IdleLimiter /\ InitMission(LoggerConfigs)

NextLogger ==
  \/ \E a \in Agents : RuntimeAgentStep(a)
  \/ StartMissionRuntime
  \/ SpawnRuntime
  \/ FinishRuntime
  \/ DeadlineFires
  \/ HubRun
  \/ \E ev \in LoggerEvents : Publish(ev)
  \/ LoggerRecv
  \/ LoggerTick
  \/ LoggerPut

SpecLogger == InitLogger /\ [][NextLogger]_vars

\* RuntimeAgent.emitEvent of an event whose Timestamp is followed: accepted
\* when the bus has room, dropped otherwise
EmitStamped(a) ==
  /\ Runtime
  /\ ws.stamped < MaxEvents
  /\ Len(bus) < BusCap
  /\ bus' = emitEvent(bus, Stamped(RuntimeEv(a, "success"), ws.stamped + 1))
  /\ ws' = [ws EXCEPT !.stamped = @ + 1]
  /\ UNCHANGED <<limVars, reg, regLog, dec, api, sel, cfg, mission, ctxDone, opc, spawned, wg, store,
                 lg, ag, emitted>>

\* cmd/server main: one eventBus channel, `go wsHub.Run`, `go EventLogger.Run`
InitBus == IdleLimiter /\ InitMission(LoggerConfigs)

NextBus ==
  \/ \E a \in Agents : EmitStamped(a)
  \/ HubRun
  \/ LoggerRecv
  \/ \E k \in Conns : HubRegister(k)
  \/ \E k \in Conns : HubUnregister(k)
  \/ \E k \in Conns : ReadPumpEnds(k)

SpecBus == InitBus /\ [][NextBus]_vars

\* the hub's select takes every case that stays ready
FairSpecBus ==
  InitBus /\ [][NextBus]_vars /\ \A k \in Conns : WF_vars(HubUnregister(k))

\* a GeminiService of either program, asked for decisions by a policy that
\* answers anything
InitDecide == IdleLimiter /\ IdleMission

SpecDecide == InitDecide /\ [][NextDecide]_vars

\* a REST API of either program, sent any request
InitCreate == IdleLimiter /\ IdleMission

SpecCreate == InitCreate /\ [][NextCreate]_vars

\* the HTML parser, given any small document
InitSelector == IdleLimiter /\ IdleMission

SpecSelector == InitSelector /\ [][NextSelector]_vars

(* ----------------------------- C1 -------------------------------------- *)
\* C1: once an agent's status is completed, failed, stopped, cancelled or
\* rate_limited, no step of the program changes it again.
C1_TerminalIsFinal ==
  [][\A a \in Agents :
       ag[a].status \in Terminal => ag'[a].status = ag[a].status]_vars

(* ----------------------------- C2 -------------------------------------- *)
\* C2: an Agent that ended failed without a single successful fetch has run
\* exactly maxConsecutiveErrors steps and has emitted exactly that many
\* ActionLogs with result "failed", and none with result "success".
C2_AlwaysFailingFetch ==
  \A a \in Agents :
    (Legacy /\ ag[a].status = "failed" /\ ~ag[a].fetched) =>
      /\ ag[a].step = maxConsecutiveErrors
      /\ emitted[a].failed = maxConsecutiveErrors
      /\ emitted[a].success = 0

(* ----------------------------- C3 -------------------------------------- *)
\* C3: when the mission's status is completed, completed_agents plus
\* failed_agents equals NumAgents, whatever statuses the agents ended in.
C3_CountsAddUp ==
  mission.status = "completed" =>
    mission.completedAgents + mission.failedAgents = cfg.n

(* ----------------------------- C4 -------------------------------------- *)
\* C4: an agent that has an event to emit can always take its next step: the
\* send never waits for room on the bus.
C4_EmitNeverBlocks ==
  \A a \in Agents : ag[a].pending # NoEv => ENABLED LegacySend(a)

(* ----------------------------- C8 -------------------------------------- *)
\* C8: under fair scheduling, a mission that has been started (status
\* running) eventually has status completed, whatever its agents end in.
C8_MissionCompletes ==
  (mission.status = "running") ~> (mission.status = "completed")

\* a mission is completed although one of its agents failed
C8_Witness ==
  /\ mission.status = "completed"
  /\ \E a \in Live : ag[a].status = "failed"

(* ----------------------------- C9 -------------------------------------- *)
\* the agent's Run has returned with a terminal status
Returned(a) ==
  /\ ag[a].pc \in {"returned", "done"}
  /\ ag[a].pending = NoEv
  /\ ag[a].status \in Terminal

Rank(st) == IF st = "completed" THEN 2 ELSE IF st = "running" THEN 1 ELSE 0

C11_CountsBounded ==
  mission.completedAgents + mission.failedAgents <= cfg.n

\* every agent of a crowd has been merged, one of them as failed
C11_Witness ==
  /\ Legacy
  /\ cfg.n >= 2
  /\ mission.failedAgents >= 1
  /\ mission.completedAgents + mission.failedAgents = cfg.n

(* ----------------------------- C12 ------------------------------------- *)
\* C12: a Wait call returns nil only if that call deducted exactly one token
\* from the bucket; it returns a non-nil error only if the caller's context
\* was cancelled, and then that call deducted no token.
C12_WaitOutcome ==
  \A c \in Callers :
    /\ wpc[c] = "nil" => took[c] = Scale
    /\ wpc[c] = "err" => wctx /\ took[c] = 0

\* one call returned nil, and another returned the context's error after it
\* had tried the bucket and slept
C12_Witness ==
  \E c, d \in Callers :
    /\ wpc[c] = "nil" /\ took[c] = Scale
    /\ wpc[d] = "err" /\ tries[d] >= 1 /\ slept[d] /\ took[d] = 0

(* ----------------------------- C13 ------------------------------------- *)
\* C13: Get calls for one mission id with no Remove of that id between them,
\* however they interleave, all return the same limiter instance; it was
\* created once, with the rate of the first of those calls and capacity
\* floor(rate) + 1, at least 1.  A Get after Remove(id) returns a limiter
\* that no earlier Get returned.
C13_OneLimiterPerMission ==
  \A id \in MissionIDs :
    LET g == regLog[id]
    IN /\ Cardinality(g.insts) <= 1
       /\ \A x \in g.insts :
            /\ x.rate = g.first[1]
            /\ x.capacity = IF (g.first[1] \div Scale) + 1 < 1
                              THEN 1 ELSE (g.first[1] \div Scale) + 1
            /\ x.inst \notin g.old

\* two callers have been handed the limiter of one id, made for a fractional
\* negative rate, after an earlier limiter of that id was removed
C13_Witness ==
  \E id \in MissionIDs :
    /\ regLog[id].old # {}
    /\ \E x \in regLog[id].insts : x.rate < 0 /\ x.rate % Scale # 0
    /\ \A c \in Callers :
         /\ reg.call[c].op = "get" /\ reg.call[c].id = id
         /\ reg.call[c].pc \in {"unlock", "idle"}
         /\ reg.call[c].ret \in {x.inst : x \in regLog[id].insts}

(* ----------------------------- C14 ------------------------------------- *)
\* C14: once a mission's status is completed, the registry holds no limiter
\* for that mission.
C14_LimiterRemoved ==
  mission.status = "completed" => ~RegistryExists(reg, MissionID)

(* ----------------------------- C15 ------------------------------------- *)
\* C15: every event accepted onto the bus is consumed by both the hub and
\* the event logger: once it has left the bus, each of them has received it.
C15_BothConsume ==
  \A n \in 1..ws.stamped :
    (\A i \in DOMAIN bus : bus[i].stamp # n) =>
      n \in ws.hubGot /\ n \in ws.logGot

C17_EventTypes ==
  \A i \in DOMAIN bus :
    /\ bus[i].type \in {"agent_status", "action", "summary", "summary_tick"}
    /\ bus[i].result # "" =>
         bus[i].type = "action" /\ bus[i].payload = "AgentEvent"

(* ----------------------------- C18 ------------------------------------- *)
\* C18: a DecideNextAction call invokes the policy at most 3 times; it
\* returns the decision of the first attempt whose response parses and passes
\* validation, and makes no attempt after it; it returns an error exactly
\* when every attempt failed (transport failure, empty or unparseable
\* response, validation failure).
C18_BoundedRetry ==
  dec.pc = "ret" =>
    LET good(i) == Parses(dec.log[i]) /\ validateResponse(dec.log[i])
    IN /\ Len(dec.log) <= maxRetries
       /\ \A i \in DOMAIN dec.log : good(i) => i = Len(dec.log)
       /\ dec.err <=> \A i \in DOMAIN dec.log : ~good(i)
       /\ ~dec.err => dec.decision = dec.log[Len(dec.log)]

(* ----------------------------- C19 ------------------------------------- *)
\* C19: a policy response is returned to the agent as a decision exactly when
\* its action is one of click, type, wait, go_back, visit, completed, failed,
\* it has a selector if the action is click or type, and a text_input if the
\* action is type.
C19_ValidDecisions ==
  dec.pc = "ret" =>
    \A i \in DOMAIN dec.log :
      (~dec.err /\ i = Len(dec.log))
        <=> /\ Parses(dec.log[i])
            /\ dec.log[i].action \in {"click", "type", "wait", "go_back", "visit",
                                      "completed", "failed"}
            /\ dec.log[i].action \in {"click", "type"} => dec.log[i].selector # ""
            /\ dec.log[i].action = "type" => dec.log[i].text_input # ""

(* ----------------------------- C20 ------------------------------------- *)
\* C20: Agent.Run performs at most maxSteps loop iterations, the ones that
\* end in an error, a go_back or a wait included; a Run that no other
\* terminal condition ended ends with status completed, after exactly
\* maxSteps iterations; and under fair scheduling every Run returns, whatever
\* the policy decides.
C20_RunBounded ==
  /\ [](\A a \in Agents : Legacy =>
          /\ ag[a].step <= MaxSteps
          /\ ag[a].pc \in {"wait", "fetch", "decide", "delay"} => ag[a].step < MaxSteps
          /\ (Returned(a) /\ ag[a].status \notin {"cancelled", "failed", "rate_limited"})
               => ag[a].status = "completed" /\ ag[a].step = MaxSteps)
  /\ \A a \in Agents : (Legacy /\ ag[a].pc = "spawned") ~> Returned(a)

\* a Run used up its iterations, one of them on an error, and ended completed
C20_Witness ==
  \E a \in Live :
    /\ Legacy
    /\ Returned(a)
    /\ ag[a].status = "completed"
    /\ ag[a].step = MaxSteps
    /\ ag[a].errorCount >= 1

(* ----------------------------- C21 ------------------------------------- *)
\* C21: a mission is stored and its agents started only if the request has a
\* non-empty name, target_url and goal, num_agents in 1..1000,
\* max_duration_seconds in 10..3600 and 0 < rate_limit_per_second <= 1000;
\* any other request is rejected and nothing is stored or started.
C21_ValidatedCreate ==
  api.impl # "" =>
    LET r == api.req
        inRange == /\ r.decodes
                   /\ r.name # "" /\ r.target_url # "" /\ r.goal # ""
                   /\ r.num_agents \in 1..1000
                   /\ r.max_duration_seconds \in 10..3600
                   /\ 0 < r.rate_limit_per_second
                   /\ r.rate_limit_per_second <= 1000 * Scale
    IN /\ (api.stored \/ api.started) => inRange
       /\ ~inRange => api.response = "400"

(* ----------------------------- C22 ------------------------------------- *)
\* C22: for every element of a DOM tree, generateSelector yields the same
\* selector each time, and the first match of that selector in the same DOM
\* is that element.
C22_SelectorRoundTrip ==
  sel # NoSel => sel.again = sel.selector /\ sel.found = sel.node

(* ----------------------------- C23 ------------------------------------- *)
\* C23: once an agent's consecutive errors have passed the threshold (the
\* loop's `>= maxConsecutiveErrors` of Agent, handleError's `> 10` of
\* RuntimeAgent) or its status is failed, it is no longer in a rate-limiter
\* wait, a page fetch, a decision call or an action.
C23_FailedStops ==
  \A a \in Agents :
    LET over == IF Legacy THEN ag[a].consecutiveErrors >= maxConsecutiveErrors
                          ELSE ag[a].consecutiveErrors > runtimeErrorThreshold
    IN (over \/ ag[a].status = "failed")
         => ag[a].pc \notin {"wait", "fetch", "decide", "delay"}

(* ----------------------------- C24 ------------------------------------- *)
\* C24: a mission's status is completed only after every one of its agent
\* goroutines has returned from Run: no agent of a completed mission is
\* still taking steps.
C24_CompletedAfterAgents ==
  mission.status = "completed" =>
    \A a \in 1..spawned : ag[a].pc \in {"returned", "done"} /\ ag[a].pending = NoEv

(* ----------------------------- C25 ------------------------------------- *)
\* C25: when a mission is completed, the AgentMetrics entry of each of its
\* agents is that agent's final snapshot: a terminal status and the agent's
\* final success and error counters.
C25_FinalSnapshots ==
  mission.status = "completed" =>
    \A a \in Live :
      /\ mission.agentMetrics[a].status \in Terminal
      /\ mission.agentMetrics[a] = GetMetrics(ag[a])

(* ----------------------------- C26 ------------------------------------- *)
\* the sum over the mission's first k agents of one of their counters
RECURSIVE SumOver(_, _)
SumOver(k, field) ==
  IF k = 0 THEN 0 ELSE ag[k][field] + SumOver(k - 1, field)

\* C26: when a mission is completed, its TotalActions is the sum of its
\* agents' final successCount and its TotalErrors the sum of their final
\* errorCount.
C26_TotalsAreSums ==
  mission.status = "completed" =>
    /\ mission.totalActions = SumOver(cfg.n, "successCount")
    /\ mission.totalErrors = SumOver(cfg.n, "errorCount")

(* ----------------------------- C27 ------------------------------------- *)
\* C27: if the mission's cancellation has fired before an agent calls
\* limiter.Wait in a loop iteration, Wait does not return nil, whatever the
\* token level: the agent exits with a cancellation status and does not go
\* on to fetchPage in that iteration.
C27_CancelledBeforeWait ==
  \A c \in Callers : late[c] => wpc[c] # "nil"

(* ----------------------------- C28 ------------------------------------- *)
\* C28: when the decision is "completed" or "failed" the agent records it
\* (which resets consecutiveErrors), takes that status and returns: no action
\* executor, no further fetch or decision call.
C28_TerminalDecision ==
  \A a \in Live :
    ag[a].answer \in TerminalActions =>
      /\ ag[a].pc = "returned"
      /\ ag[a].status = ag[a].answer
      /\ ag[a].consecutiveErrors = 0

(* ----------------------------- C29 ------------------------------------- *)
\* C29: a handled error raises errorCount and consecutiveErrors by exactly 1
\* and touches neither successCount nor the action history; a recorded
\* success raises successCount by exactly 1, appends exactly one history
\* entry and leaves consecutiveErrors at 0; no other step changes
\* consecutiveErrors or the history.  With consecutiveErrors = 0 at the start
\* it therefore always is the number of handled errors since the last
\* success.  (The counters of a RuntimeAgent stop at cfg.errCap and
\* cfg.succCap in this model; the steps below those caps are the ones stated.)
C29_Step(a) ==
  LET r == ag[a]
      q == ag'[a]
  IN (r.errorCount < cfg.errCap /\ r.successCount < cfg.succCap) =>
       /\ q.errorCount # r.errorCount =>
            /\ q.errorCount = r.errorCount + 1
            /\ q.consecutiveErrors = r.consecutiveErrors + 1
            /\ q.successCount = r.successCount
            /\ q.actionHistory = r.actionHistory
       /\ q.successCount # r.successCount =>
            /\ q.successCount = r.successCount + 1
            /\ q.actionHistory = r.actionHistory + 1
            /\ q.consecutiveErrors = 0
            /\ q.errorCount = r.errorCount
       /\ (q.errorCount = r.errorCount /\ q.successCount = r.successCount) =>
            /\ q.consecutiveErrors = r.consecutiveErrors
            /\ q.actionHistory = r.actionHistory

C29_CounterSteps ==
  [][cfg' = cfg => \A a \in Agents : C29_Step(a)]_vars

\* an agent that handled errors, recorded a success and handled one more error
C29_Witness ==
  \E a \in Live :
    /\ ag[a].errorCount >= 2
    /\ ag[a].successCount >= 1
    /\ ag[a].consecutiveErrors = 1
    /\ ag[a].actionHistory = ag[a].successCount

(* ----------------------------- C30 ------------------------------------- *)
\* C30: a "go_back" decision never reaches the action executor.  With more
\* than one entry in the URL history the last entry is removed and currentURL
\* becomes the new last entry; with the origin alone, currentURL, the history
\* and the success and error counters stay as they are.
C30_Step(a) ==
  LET r == ag[a]
      q == ag'[a]
      h == r.urlHistory
  IN (r.pc = "decide" /\ q.answer = "go_back") =>
       /\ ~q.executed
       /\ IF Len(h) > 1
            THEN /\ q.urlHistory = SubSeq(h, 1, Len(h) - 1)
                 /\ q.currentURL = h[Len(h) - 1]
            ELSE /\ q.urlHistory = h
                 /\ q.currentURL = r.currentURL
                 /\ q.successCount = r.successCount
                 /\ q.errorCount = r.errorCount

C30_GoBack ==
  [][\A a \in Agents : C30_Step(a)]_vars

(* ----------------------------- C31 ------------------------------------- *)
\* C31: a "wait" decision of the Agent is a successful step: currentURL and
\* the URL history stay as they are, errorCount does not grow, consecutiveErrors
\* is not raised (it is reset), the ActionLog it emits is a success, and the
\* loop goes on to its next iteration, which fetches currentURL again.
C31_Step(a) ==
  LET r == ag[a]
      q == ag'[a]
  IN (r.pc = "decide" /\ q.answer = "wait") =>
       /\ q.currentURL = r.currentURL
       /\ q.urlHistory = r.urlHistory
       /\ q.errorCount = r.errorCount
       /\ q.consecutiveErrors = 0
       /\ q.successCount = r.successCount + 1
       /\ q.pending = ActionEv(a, "success")
       /\ q.pc = "top"

C31_WaitIsSuccess ==
  [][\A a \in Agents : C31_Step(a)]_vars

\* a wait recorded after errors, on a page the agent had moved to
C31_Witness ==
  \E a \in Live :
    /\ ag[a].answer = "wait"
    /\ ag[a].errorCount >= 1
    /\ Len(ag[a].urlHistory) >= 2

(* ----------------------------- C32 ------------------------------------- *)
\* C32: urlHistory gains an entry only when a successful action changed the
\* current URL, so no two consecutive entries of a URL history are equal.
C32_NoRepeatedURL ==
  \A a \in Agents :
    \A i \in 1..(Len(ag[a].urlHistory) - 1) :
      ag[a].urlHistory[i] # ag[a].urlHistory[i + 1]

(* ----------------------------- C33 ------------------------------------- *)
\* C33: the backoff sleep of an agent's error handling never exceeds a fixed
\* constant, however many errors have accumulated.  The one constant of
\* handleError is the threshold of consecutive errors; the sleep of the call
\* that crosses it is the constant taken here.
C33_BackoffCapped ==
  [][\A a \in Agents :
       (Runtime /\ ag'[a].errorCount # ag[a].errorCount) =>
         backoffSleep(ag'[a]) <= runtimeErrorThreshold + 1]_vars

(* ----------------------------- C34 ------------------------------------- *)
\* C34: when Wait reaches calculateWaitTime (tryAcquire failed, the context
\* is not cancelled) and the refilled bucket still holds less than one token,
\* the computed duration is strictly positive, for every rate and token level,
\* so that Wait suspends instead of trying again at once.
C34_PositiveWait ==
  \A c \in Callers :
    (wpc[c] = "calc" /\ refill(rl, now).tokens < Scale) =>
      calculateWaitTime(rl, now).wait > 0

(* ----------------------------- C35 ------------------------------------- *)
\* C35: a connection whose write failed in a broadcast is eventually removed
\* from the hub's connections; a connection is closed once when it is removed
\* and never again, however many unregister requests (failed writes, the read
\* pump) name it; and the broadcast in which a write fails still writes the
\* event to every other registered connection in the same pass, the failed
\* connection being removed only later.
C35_ClosedOnce ==
  \A k \in Conns :
    /\ ws.conn[k].closed <= 1
    /\ ws.conn[k].closed = 1 <=>
         (~ws.conn[k].registered /\ ws.conn[k] # NoConn)

C35_BroadcastStep ==
  \A k \in Conns :
    (bus' # bus /\ ws'.hubGot # ws.hubGot /\ ws.conn[k].registered) =>
      /\ ws'.conn[k].registered
      /\ ws'.conn[k].broken \/ ws'.conn[k].out = WriteMessage(ws.conn[k].out, Head(bus))

C35_FailedWriteUnregisters ==
  /\ []C35_ClosedOnce
  /\ [][C35_BroadcastStep]_vars
  /\ \A k \in Conns :
       (ws.conn[k].registered /\ ws.conn[k].broken)
         ~> (~ws.conn[k].registered /\ ws.conn[k].closed = 1)

\* a broadcast failed on one connection and reached the other; the failed one
\* was then removed and closed while a request of its read pump is still due
C35_Witness ==
  \E k, j \in Conns :
    /\ k # j
    /\ ~ws.conn[k].registered /\ ws.conn[k].closed = 1 /\ ws.conn[k].unreg > 0
    /\ ws.conn[j].registered /\ Len(ws.conn[j].out) > 0 /\ ~ws.conn[j].broken

(* ----------------------------- C36 ------------------------------------- *)
\* what the logger has counted for the mission: the stored total and the
\* accumulator's
SumActions(l, st) == Plus(st.totalActions, l.totalActions)

SumErrors(l, st) == Plus(st.totalErrors, l.totalErrors)

\* the step is the logger taking an action event with this kind of result
HandlesAction(ok) ==
  /\ lg.pc = "idle" /\ Len(bus) > 0 /\ bus' = Tail(bus) /\ lg' # lg
  /\ Head(bus).type = "action" /\ Head(bus).payload = "AgentEvent"
  /\ (Head(bus).result = "success") = ok

C40_CurrentIsLast ==
  \A a \in Agents :
    ag[a].pc \notin {"none", "spawned"} =>
      /\ Len(ag[a].urlHistory) >= 1
      /\ ag[a].currentURL = ag[a].urlHistory[Len(ag[a].urlHistory)]

\* an agent that has moved away from the target, with errors on the way
C40_Witness ==
  \E a \in Live :
    /\ Len(ag[a].urlHistory) >= 3
    /\ ag[a].currentURL # 1
    /\ ag[a].errorCount >= 1

(* ----------------------------- C5 -------------------------------------- *)
\* C5: in every reachable state of the limiter, under any interleaving of
\* Wait callers and any passage of time, 0 <= tokens <= capacity.
C5_TokenBounds == rl.tokens >= 0 /\ rl.tokens <= rl.capacity * Scale

\* a refill that had to be capped has happened and a caller holds a token
C5_Witness ==
  /\ acquired >= 1
  /\ now >= 2
  /\ rl.lastRefill = now
  /\ rl.tokens = rl.capacity * Scale

(* ----------------------------- C6 -------------------------------------- *)
\* C6: the number of Wait calls that have returned nil by time T is at most
\* capacity + rate * T (here in 1/Scale tokens, rate per tick).
C6_RateBound == acquired * Scale <= rl.capacity * Scale + rl.rate * now

\* the bound is met with equality after time has passed
C6_Witness ==
  /\ now >= 1
  /\ acquired > rl.capacity
  /\ acquired * Scale = rl.capacity * Scale + rl.rate * now

(* ----------------------------- C7 -------------------------------------- *)
\* a call of Wait that did not get its token on its first tryAcquire
FailedFirstTry(c) ==
  \/ wpc[c] \in {"ctx", "calc", "sleep", "err"}
  \/ tries[c] >= 2
  \/ slept[c]

\* C7: on a limiter that was created full, a Wait call fails its first
\* tryAcquire (and so may sleep) only after capacity calls have returned nil,
\* and more than capacity calls have returned nil only once time enough to
\* refill one token has passed.
C7_Burst ==
  /\ \A c \in Callers : FailedFirstTry(c) => acquired >= rl.capacity
  /\ acquired > rl.capacity => rl.rate * now >= Scale

\* the burst is spent, a further call slept and then got the refilled token
C7_Witness ==
  /\ acquired = rl.capacity + 1
  /\ \E c \in Callers : slept[c] /\ wpc[c] = "nil"

====
